---- MODULE Spec2Model ----
(***************************************************************************)
(* A model of daytona_issues.py: the rate-limit guard, the paginated issue *)
(* fetch, the fork-count fetch and the weekly aggregation, run in the      *)
(* order main() runs them.                                                 *)
(*                                                                         *)
(* Time stamps are day numbers counted from 1970-01-01 (a Thursday).       *)
(* A JSON/DataFrame cell is a tagged record: [iso |-> d] is the ISO-8601   *)
(* string of day d as the API sends it, [ts |-> d] a parsed pandas         *)
(* Timestamp, [num |-> n] a number; None, NaT and NaN are the missing      *)
(* values of Python and pandas.                                            *)
(***************************************************************************)
EXTENDS Integers, Sequences, FiniteSets, TLC

VARIABLES pc, issues, page, trace, rl, forks_count, github_data,
          issues_with_dates, weekly_data, exc

vars == <<pc, issues, page, trace, rl, forks_count, github_data,
          issues_with_dates, weekly_data, exc>>

\* pc                 where main() stands
\* issues, page       the locals of fetch_issues; issues is also what it returns
\* trace              the rate-limit checks and page requests fetch_issues has
\*                    made, in order, each page request with its response
\* rl                 the last call of check_rate_limit: the quota response,
\*                    the exception it raised and the sleeps it made
\* forks_count, github_data, issues_with_dates, weekly_data
\*                    the locals of main()
\* exc                the exception that left main(), and the function it
\*                    was raised in

(* ------------------------------ bounds --------------------------------- *)

\* the listing endpoint holds at most MaxPages pages
MaxPages == 2
\* the largest issue list handed to the aggregation on its own
MaxIssues == 3

(* --------------------------- program constants ------------------------- *)

\* if remaining < 10
RateLimitThreshold == 10
\* 2000-01-01 as a day number: dt.year >= 2000 holds from this day on
FirstDayOf2000 == 10957

(* ------------------------------ values --------------------------------- *)

None == [none |-> TRUE]
NaT == [nat |-> TRUE]
NaN == [nan |-> TRUE]

NoException == [type |-> "none", in |-> "none"]

\* 1999-12-25 (Sat), 2000-01-01 (Sat, its week starts 1999-12-27),
\* 2000-01-03 (Mon), 2000-01-06 (Thu, same week), 2000-01-10 (Mon, the week
\* after)
Days == {10950, 10957, 10959, 10962, 10966}

\* an issue of the tracker as the listing endpoint returns it: closed_at is
\* set exactly when state is "closed"
Issue(n, created, closed) ==
    [number |-> n,
     state |-> IF closed = None THEN "open" ELSE "closed",
     created_at |-> [iso |-> created],
     closed_at |-> closed]

ClosedCells(created) == {None} \cup {[iso |-> d] : d \in {e \in Days : e >= created}}

\* the records the listing endpoint serves: an open issue, a closed issue
\* and a pull request (an issue record carrying the 'pull_request' key)
OpenIssue == Issue(1, 10959, None)
ClosedIssue == Issue(2, 10959, [iso |-> 10966])
PullRequest ==
    [number |-> 3, state |-> "open", created_at |-> [iso |-> 10962],
     closed_at |-> None, pull_request |-> [url |-> "pulls/3"]]

\* the pages it serves them in
ServedPages ==
    { <<>>, <<OpenIssue>>, <<ClosedIssue>>, <<PullRequest>>,
      <<OpenIssue, PullRequest>>, <<PullRequest, ClosedIssue>>,
      <<ClosedIssue, OpenIssue>> }

(* ------------------------- check_rate_limit ---------------------------- *)

\* what requests.get('https://api.github.com/rate_limit') can do: raise a
\* network error, answer with a non-200 status, or answer 200 with the core
\* quota; reset is given as reset_time - now, in seconds
QuotaResponses ==
    {[error |-> "ConnectionError"]}
      \cup {[status_code |-> 403]}
      \cup {[status_code |-> 200, remaining |-> r, reset |-> t] :
               r \in {RateLimitThreshold - 1}, t \in {0 - 5, 0 - 1, 30}}
      \cup {[status_code |-> 200, remaining |-> RateLimitThreshold, reset |-> 30]}

\* time.sleep(secs): raises ValueError for a negative length
sleep(secs) ==
    IF secs < 0 THEN [raised |-> "ValueError", slept |-> <<>>]
    ELSE [raised |-> "none", slept |-> <<secs>>]

\* the outcome of one call: the exception that leaves it ("none" when it
\* returns) and the lengths of the sleeps it made
check_rate_limit(resp) ==
    IF "error" \in DOMAIN resp
      THEN [raised |-> "RequestException", slept |-> <<>>]
      ELSE IF resp.status_code = 200
             THEN IF resp.remaining < RateLimitThreshold
                    THEN LET wait_time == resp.reset
                         IN  sleep(wait_time + 1)
                    ELSE [raised |-> "none", slept |-> <<>>]
             ELSE [raised |-> "none", slept |-> <<>>]

(* ---------------------------- fetch_issues ----------------------------- *)

\* requests.get(f"{api_url}/issues") followed by raise_for_status(): a
\* RequestException, or a page of records with or without a 'next' link.
\* The server has no page after MaxPages.
PageResponses(p) ==
    {[ok |-> FALSE, data |-> <<>>, next |-> FALSE]}
      \cup {[ok |-> TRUE, data |-> d, next |-> n] :
               d \in ServedPages,
               n \in {b \in BOOLEAN : b => p < MaxPages}}

IsPullRequest(issue) == "pull_request" \in DOMAIN issue

\* variant: the page is taken over unfiltered
KeepAll(page_data) == page_data

\* [issue for issue in page_data if 'pull_request' not in issue]
NonPullRequests(page_data) ==
    SelectSeq(page_data, LAMBDA issue : ~IsPullRequest(issue))

\* variant: a failed request throws away what was accumulated
PageStepDropOnError(acc, p, resp) ==
    IF ~resp.ok THEN [issues |-> <<>>, page |-> p, break |-> TRUE]
    ELSE IF Len(resp.data) = 0 THEN [issues |-> acc, page |-> p, break |-> TRUE]
    ELSE IF ~resp.next
      THEN [issues |-> acc \o NonPullRequests(resp.data), page |-> p, break |-> TRUE]
      ELSE [issues |-> acc \o NonPullRequests(resp.data), page |-> p + 1, break |-> FALSE]

\* variant: the loop goes on whether or not the response has a 'next' link
PageStepIgnoreLinks(acc, p, resp) ==
    IF ~resp.ok THEN [issues |-> acc, page |-> p, break |-> TRUE]
    ELSE IF Len(resp.data) = 0 THEN [issues |-> acc, page |-> p, break |-> TRUE]
    ELSE [issues |-> acc \o NonPullRequests(resp.data), page |-> p + 1, break |-> FALSE]

\* one pass through the body of the while loop after the rate-limit check:
\* the issues and page after it, and whether the loop was left by a break
PageStep(acc, p, resp) ==
    IF ~resp.ok THEN [issues |-> acc, page |-> p, break |-> TRUE]
    ELSE IF Len(resp.data) = 0 THEN [issues |-> acc, page |-> p, break |-> TRUE]
    ELSE IF ~resp.next
      THEN [issues |-> acc \o NonPullRequests(resp.data), page |-> p, break |-> TRUE]
      ELSE [issues |-> acc \o NonPullRequests(resp.data), page |-> p + 1, break |-> FALSE]

(* ---------------------------- fetch_forks ------------------------------ *)

\* requests.get(api_url) and raise_for_status(): a RequestException, or the
\* repository's metadata, with or without a forks_count
ForkResponses ==
    {[ok |-> FALSE, body |-> [id |-> 1]],
     [ok |-> TRUE, body |-> [id |-> 1]],
     [ok |-> TRUE, body |-> [id |-> 1, forks_count |-> 7]]}

fetch_forks(resp) ==
    IF ~resp.ok THEN 0
    ELSE IF "forks_count" \in DOMAIN resp.body THEN resp.body.forks_count ELSE 0

(* ----------------------------- parse_dates ----------------------------- *)

\* pd.to_datetime(x, utc=True).tz_localize(None) and pd.to_datetime(x): an
\* ISO string becomes the Timestamp of its day, a missing value becomes NaT,
\* a Timestamp stays, and an integer n is read as n nanoseconds after the
\* epoch (the only integer the pipeline produces is the 0 of fillna(0),
\* which is day 0, 1970-01-01)
to_datetime(cell) ==
    IF cell \in {None, NaT, NaN} THEN NaT
    ELSE IF "iso" \in DOMAIN cell THEN [ts |-> cell.iso]
    ELSE IF "num" \in DOMAIN cell THEN [ts |-> 0]
    ELSE cell

\* closed_at is converted only when issue.get('closed_at') is truthy
parse_dates(list) ==
    [i \in 1..Len(list) |->
        [list[i] EXCEPT !.created_at = to_datetime(@),
                        !.closed_at = IF @ = None THEN @ ELSE to_datetime(@)]]

\* pd.DataFrame(list of dicts): the columns are the keys that occur, so the
\* frame of an empty list has no columns
DataFrame(list) ==
    [columns |-> UNION {DOMAIN list[i] : i \in 1..Len(list)},
     rows |-> list]

(* --------------------------- weekly_analysis --------------------------- *)

\* dt.to_period('W') ... start_time: weeks run Monday to Sunday; day 0 is a
\* Thursday, so (d + 3) % 7 is the weekday of d counted from Monday
WeekStart(d) == d - ((d + 3) % 7)

WeekOf(cell) == IF cell = NaT THEN NaT ELSE [ts |-> WeekStart(cell.ts)]

\* df['week'] of one row
week(row) == WeekOf(to_datetime(row.created_at))

\* variant: the closing week is taken from created_at
week_closed_of_created(row) == WeekOf(to_datetime(row.created_at))

\* closed_issues['week_closed'] of one row
week_closed(row) == WeekOf(to_datetime(row.closed_at))

RECURSIVE SortedSeq(_)
SortedSeq(S) ==
    IF S = {} THEN <<>>
    ELSE LET m == CHOOSE x \in S : \A y \in S : x <= y
         IN  <<m>> \o SortedSeq(S \ {m})

\* groupby(key).size().reset_index(): one row per key that occurs, NaT keys
\* dropped, in ascending order of the key
GroupBySize(keys) ==
    LET present == {keys[i].ts : i \in {j \in 1..Len(keys) : keys[j] # NaT}}
        order == SortedSeq(present)
    IN  [k \in 1..Len(order) |->
            [key |-> [ts |-> order[k]],
             size |-> Cardinality({i \in 1..Len(keys) : keys[i] = [ts |-> order[k]]})]]

KeysOf(series) == {series[i].key.ts : i \in 1..Len(series)}

SizeAt(series, k) ==
    LET i == CHOOSE j \in 1..Len(series) : series[j].key.ts = k
    IN  series[i].size

\* pd.merge(weekly_opened, weekly_closed, left_on='week',
\* right_on='week_closed', how='outer'): both key columns are kept, and a
\* row found on one side only has missing values in the other side's
\* columns, its key column included
merge_outer(left, right) ==
    LET order == SortedSeq(KeysOf(left) \cup KeysOf(right))
    IN  [n \in 1..Len(order) |->
            LET k == order[n]
            IN  [week |-> IF k \in KeysOf(left) THEN [ts |-> k] ELSE NaT,
                 issues_opened |-> IF k \in KeysOf(left)
                                     THEN [num |-> SizeAt(left, k)] ELSE NaN,
                 week_closed |-> IF k \in KeysOf(right) THEN [ts |-> k] ELSE NaT,
                 issues_closed |-> IF k \in KeysOf(right)
                                     THEN [num |-> SizeAt(right, k)] ELSE NaN]]

\* .fillna(0): every missing cell, of whatever column, becomes the integer 0
fillna0(cell) == IF cell \in {NaT, NaN, None} THEN [num |-> 0] ELSE cell

\* .fillna(0).drop('week_closed', axis=1), then
\* weekly_combined['week'] = pd.to_datetime(weekly_combined['week'])
combine(merged) ==
    [n \in 1..Len(merged) |->
        [week |-> to_datetime(fillna0(merged[n].week)),
         issues_opened |-> fillna0(merged[n].issues_opened),
         issues_closed |-> fillna0(merged[n].issues_closed)]]

\* weekly_combined[weekly_combined['week'].dt.year >= 2000]
filter_from_2000(table) ==
    SelectSeq(table, LAMBDA row : row.week.ts >= FirstDayOf2000)

\* the rows in ascending order of sign * week, rows of equal week keeping
\* their order
RECURSIVE InsertByWeek(_, _, _)
InsertByWeek(row, sorted, sign) ==
    IF sorted = <<>> THEN <<row>>
    ELSE IF sign * row.week.ts <= sign * Head(sorted).week.ts THEN <<row>> \o sorted
    ELSE <<Head(sorted)>> \o InsertByWeek(row, Tail(sorted), sign)

RECURSIVE SortByWeek(_, _)
SortByWeek(table, sign) ==
    IF table = <<>> THEN <<>>
    ELSE InsertByWeek(Head(table), SortByWeek(Tail(table), sign), sign)

\* variant: the rows are sorted latest week first
sort_values_descending(table) == SortByWeek(table, 0 - 1)

\* weekly_combined.sort_values('week')
sort_values(table) == SortByWeek(table, 1)

\* .astype(int) on the two count columns
astype_int(table) ==
    [n \in 1..Len(table) |->
        [week |-> table[n].week,
         issues_opened |-> table[n].issues_opened.num,
         issues_closed |-> table[n].issues_closed.num]]

weekly_opened(df) == GroupBySize([i \in 1..Len(df.rows) |-> week(df.rows[i])])

closed_issues(df) == SelectSeq(df.rows, LAMBDA row : row.state = "closed")

weekly_closed(df) ==
    LET closed == closed_issues(df)
    IN  GroupBySize([i \in 1..Len(closed) |-> week_closed(closed[i])])

\* the table before the year filter
weekly_combined(df) == combine(merge_outer(weekly_opened(df), weekly_closed(df)))

\* the exception that leaves weekly_analysis ("none" when it returns) and
\* the table it returns
weekly_analysis(df) ==
    IF "created_at" \notin df.columns
      THEN [raised |-> "KeyError", table |-> <<>>]
    ELSE IF "closed_at" \notin df.columns
      THEN [raised |-> "KeyError", table |-> <<>>]
    ELSE [raised |-> "none",
          table |-> astype_int(sort_values(filter_from_2000(weekly_combined(df))))]

(* ------------------------------- main ---------------------------------- *)

\* the position of main(): "fi_check" and "fi_request" are the two halves of
\* one pass of fetch_issues' loop, "ff_check" and "ff_request" the two
\* requests of fetch_forks, "raised" an exception that left main()
Init ==
    /\ pc = "fi_check"
    /\ issues = <<>>
    /\ page = 1
    /\ trace = <<>>
    /\ rl = <<>>
    /\ forks_count = 0
    /\ github_data = <<>>
    /\ issues_with_dates = <<>>
    /\ weekly_data = <<>>
    /\ exc = NoException

\* check_rate_limit() at the top of the loop of fetch_issues; it is called
\* outside the try, so what it raises leaves fetch_issues and main
FetchIssuesCheckRateLimit ==
    /\ pc = "fi_check"
    /\ \E resp \in QuotaResponses :
         LET r == check_rate_limit(resp)
         IN  /\ rl' = <<[caller |-> "fetch_issues", resp |-> resp,
                         raised |-> r.raised, slept |-> r.slept]>>
             /\ trace' = Append(trace, [op |-> "check", raised |-> r.raised])
             /\ IF r.raised = "none"
                  THEN pc' = "fi_request" /\ exc' = exc
                  ELSE pc' = "raised" /\ exc' = [type |-> r.raised, in |-> "fetch_issues"]
    /\ UNCHANGED <<issues, page, forks_count, github_data, issues_with_dates,
                   weekly_data>>

\* the rest of the loop body: the page request, the filter, the breaks; on
\* a break fetch_issues returns the list to main, which calls fetch_forks
FetchIssuesRequestPage ==
    /\ pc = "fi_request"
    /\ \E resp \in PageResponses(page) :
         LET s == PageStep(issues, page, resp)
         IN  /\ trace' = Append(trace, [op |-> "page", page |-> page, ok |-> resp.ok,
                                        data |-> resp.data, next |-> resp.next])
             /\ issues' = s.issues
             /\ page' = s.page
             /\ pc' = IF s.break THEN "ff_check" ELSE "fi_check"
    /\ UNCHANGED <<rl, forks_count, github_data, issues_with_dates, weekly_data, exc>>

\* check_rate_limit() in fetch_forks, before its try
FetchForksCheckRateLimit ==
    /\ pc = "ff_check"
    /\ \E resp \in QuotaResponses :
         LET r == check_rate_limit(resp)
         IN  /\ rl' = <<[caller |-> "fetch_forks", resp |-> resp,
                         raised |-> r.raised, slept |-> r.slept]>>
             /\ IF r.raised = "none"
                  THEN pc' = "ff_request" /\ exc' = exc
                  ELSE pc' = "raised" /\ exc' = [type |-> r.raised, in |-> "fetch_forks"]
    /\ UNCHANGED <<issues, page, trace, forks_count, github_data, issues_with_dates,
                   weekly_data>>

\* the try of fetch_forks
FetchForksRequest ==
    /\ pc = "ff_request"
    /\ \E resp \in ForkResponses :
         forks_count' = fetch_forks(resp)
    /\ pc' = "save"
    /\ UNCHANGED <<issues, page, trace, rl, github_data, issues_with_dates,
                   weekly_data, exc>>

\* save_data({'issues': issues, 'forks_count': forks_count}, ...)
SaveData ==
    /\ pc = "save"
    /\ github_data' = <<[issues |-> issues, forks_count |-> forks_count]>>
    /\ pc' = "parse"
    /\ UNCHANGED <<issues, page, trace, rl, forks_count, issues_with_dates,
                   weekly_data, exc>>

\* issues_with_dates = parse_dates(issues)
ParseDates ==
    /\ pc = "parse"
    /\ issues_with_dates' = parse_dates(issues)
    /\ pc' = "analysis"
    /\ UNCHANGED <<issues, page, trace, rl, forks_count, github_data, weekly_data, exc>>

\* df = pd.DataFrame(issues_with_dates); weekly_data = weekly_analysis(df)
WeeklyAnalysis ==
    /\ pc = "analysis"
    /\ LET r == weekly_analysis(DataFrame(issues_with_dates))
       IN  IF r.raised = "none"
             THEN pc' = "done" /\ weekly_data' = r.table /\ exc' = exc
             ELSE /\ pc' = "raised"
                  /\ weekly_data' = weekly_data
                  /\ exc' = [type |-> r.raised, in |-> "weekly_analysis"]
    /\ UNCHANGED <<issues, page, trace, rl, forks_count, github_data, issues_with_dates>>

Next ==
    \/ FetchIssuesCheckRateLimit
    \/ FetchIssuesRequestPage
    \/ FetchForksCheckRateLimit
    \/ FetchForksRequest
    \/ SaveData
    \/ ParseDates
    \/ WeeklyAnalysis

Spec == Init /\ [][Next]_vars

(* ------------- the aggregation on every small list of issues ----------- *)

\* the dates of one issue: closed_at is set exactly on a closed issue, and
\* never lies before created_at
IssueDates == {<<c, z>> : c \in Days, z \in {None} \cup {[iso |-> d] : d \in Days}}

ValidIssueDates == {cz \in IssueDates : cz[2] \in ClosedCells(cz[1])}

\* the lists of n issues main can hand to parse_dates (no pull requests)
IssueLists(n) ==
    {[i \in 1..n |-> Issue(i, f[i][1], f[i][2])] : f \in [1..n -> ValidIssueDates]}

InitWeekly ==
    /\ pc = "parse"
    /\ \E n \in 0..MaxIssues : issues \in IssueLists(n)
    /\ page = 1
    /\ trace = <<>>
    /\ rl = <<>>
    /\ forks_count = 0
    /\ github_data = <<[issues |-> issues, forks_count |-> 0]>>
    /\ issues_with_dates = <<>>
    /\ weekly_data = <<>>
    /\ exc = NoException

NextWeekly == ParseDates \/ WeeklyAnalysis

SpecWeekly == InitWeekly /\ [][NextWeekly]_vars

(* ------------------------------ readings ------------------------------- *)

IsPageEvent(e) == e.op = "page"

PageEvents == SelectSeq(trace, IsPageEvent)

RECURSIVE Flatten(_)
Flatten(pages) ==
    IF pages = <<>> THEN <<>> ELSE Head(pages).data \o Flatten(Tail(pages))

\* the records of the pages retrieved so far, in the order they came
Retrieved == Flatten(SelectSeq(PageEvents, LAMBDA e : e.ok))

WithoutPullRequestKey(records) ==
    SelectSeq(records, LAMBDA r : "pull_request" \notin DOMAIN r)

\* fetch_issues has returned its list to main
FetchReturned == pc \notin {"fi_check", "fi_request"} /\ exc.in # "fetch_issues"

\* a response after which the loop goes on to the next page
Continues(e) == e.ok /\ Len(e.data) > 0 /\ e.next

Analysed == pc = "done"

RowCount == Len(weekly_data)

\* the issues handed to weekly_analysis whose created_at (closed_at) lies in
\* the seven days from day w on
OpenedIn(w) ==
    Cardinality({j \in 1..Len(issues_with_dates) :
                    issues_with_dates[j].created_at.ts \in w..(w + 6)})

ClosedIn(w) ==
    Cardinality({j \in 1..Len(issues_with_dates) :
                    /\ issues_with_dates[j].closed_at # None
                    /\ issues_with_dates[j].closed_at.ts \in w..(w + 6)})

\* the weeks in which an issue handed to weekly_analysis was created, closed
CreatedWeeks ==
    {WeekStart(issues_with_dates[j].created_at.ts) : j \in 1..Len(issues_with_dates)}

ClosedWeeks ==
    {WeekStart(issues_with_dates[j].closed_at.ts) :
        j \in {i \in 1..Len(issues_with_dates) : issues_with_dates[i].closed_at # None}}

RowWeeks == {weekly_data[i].week.ts : i \in 1..RowCount}

(* ------------------------------- claims -------------------------------- *)

\* C1: in every row of the table weekly_analysis returns, issues_opened is
\* a natural number, the number of input issues created in the seven days
\* starting at the row's week, and issues_closed is a natural number, the
\* number of input issues closed in those seven days.
C1_CountsAreExact ==
    Analysed =>
      \A i \in 1..RowCount :
         /\ weekly_data[i].issues_opened \in Nat
         /\ weekly_data[i].issues_closed \in Nat
         /\ weekly_data[i].issues_opened = OpenedIn(weekly_data[i].week.ts)
         /\ weekly_data[i].issues_closed = ClosedIn(weekly_data[i].week.ts)

C1_Witness ==
    /\ Analysed
    /\ RowCount >= 2
    /\ \E i \in 1..RowCount : weekly_data[i].issues_opened >= 2
    /\ \E i \in 1..RowCount : weekly_data[i].issues_closed >= 1
    /\ \E j \in 1..Len(issues_with_dates) :
          /\ issues_with_dates[j].closed_at # None
          /\ WeekStart(issues_with_dates[j].closed_at.ts)
               # WeekStart(issues_with_dates[j].created_at.ts)

\* C2: when fetch_issues returned no issue, parse_dates, DataFrame and
\* weekly_analysis run to the end without an exception and the table is
\* empty (so both totals are 0).
C2_EmptyListYieldsEmptyTable ==
    (issues = <<>> /\ github_data # <<>> /\ pc \in {"done", "raised"}) =>
       (pc = "done" /\ exc = NoException /\ weekly_data = <<>>)

\* C3: the list fetch_issues returns holds no record with the 'pull_request'
\* key, and holds every other record of every page retrieved, in the order
\* of retrieval.
C3_FetchedAreTheNonPullRequests ==
    FetchReturned =>
      /\ \A i \in 1..Len(issues) : "pull_request" \notin DOMAIN issues[i]
      /\ issues = WithoutPullRequestKey(Retrieved)

C3_Witness ==
    /\ FetchReturned
    /\ Len(PageEvents) = 2
    /\ \A i \in 1..2 : PageEvents[i].ok /\ Len(PageEvents[i].data) = 2
    /\ \E i \in 1..Len(Retrieved) : "pull_request" \in DOMAIN Retrieved[i]
    /\ Len(issues) >= 3

\* C4: check_rate_limit never raises, whatever the quota request does, and
\* when the quota query fails it returns without sleeping.
C4_RateLimitCheckNeverRaises ==
    \A i \in 1..Len(rl) :
       /\ rl[i].raised = "none"
       /\ ("error" \in DOMAIN rl[i].resp \/ rl[i].resp.status_code # 200)
             => rl[i].slept = <<>>

\* C5: fetch_forks never raises: an error in its rate-limit check or in its
\* metadata request makes it return 0.
C5_FetchForksNeverRaises ==
    /\ exc.in # "fetch_forks"
    /\ \A i \in 1..Len(rl) :
          (rl[i].caller = "fetch_forks" /\ "error" \in DOMAIN rl[i].resp)
             => (pc \in {"save", "parse", "analysis", "done"} /\ forks_count = 0)

\* C6: when the request for page k fails, no further request is made and
\* fetch_issues returns, without an exception, exactly the non-pull-request
\* records of pages 1..k-1.
C6_FailedPageEndsPagination ==
    \A i \in 1..Len(trace) :
       (IsPageEvent(trace[i]) /\ ~trace[i].ok) =>
          /\ i = Len(trace)
          /\ FetchReturned
          /\ Len(SelectSeq(PageEvents, LAMBDA e : e.ok)) = trace[i].page - 1
          /\ issues = WithoutPullRequestKey(Retrieved)

C6_Witness ==
    /\ Len(PageEvents) = 2
    /\ ~PageEvents[2].ok
    /\ PageEvents[2].page = 2
    /\ Len(issues) = 2
    /\ pc = "ff_check"

\* C7: when the quota query succeeds with remaining < 10, check_rate_limit
\* sleeps (reset_time - now) + 1 seconds and returns, for every reset time;
\* with remaining >= 10 it returns without sleeping.
C7_LowQuotaSleepsUntilReset ==
    \A i \in 1..Len(rl) :
       ("status_code" \in DOMAIN rl[i].resp /\ rl[i].resp.status_code = 200) =>
          /\ rl[i].raised = "none"
          /\ rl[i].slept = IF rl[i].resp.remaining < RateLimitThreshold
                             THEN <<rl[i].resp.reset + 1>>
                             ELSE <<>>

\* C8: the week-start dates of the returned table are strictly ascending:
\* no two rows share a week and the rows are sorted by week.
C8_WeeksStrictlyAscending ==
    Analysed =>
      \A i, j \in 1..RowCount :
         i < j => weekly_data[i].week.ts < weekly_data[j].week.ts

C8_Witness ==
    /\ Analysed
    /\ RowCount >= 2
    /\ \E i \in 1..RowCount : weekly_data[i].issues_opened >= 2
    /\ \E i \in 1..RowCount :
          weekly_data[i].issues_opened >= 1 /\ weekly_data[i].issues_closed >= 1

\* the three parts of C9
RowsAreFrom2000 ==
    \A i \in 1..RowCount : weekly_data[i].week.ts >= FirstDayOf2000

WeeksBefore2000HaveNoRow ==
    \A w \in CreatedWeeks \cup ClosedWeeks : w < FirstDayOf2000 => w \notin RowWeeks

WeeksFrom2000HaveTheirRow ==
    \A w \in CreatedWeeks \cup ClosedWeeks : w >= FirstDayOf2000 => w \in RowWeeks

\* C9: every row of the returned table has a week starting in 2000 or
\* later, the weeks starting before 2000 in which an issue was created or
\* closed have no row, and the weeks starting in 2000 or later keep theirs.
C9_OnlyWeeksBefore2000AreDropped ==
    Analysed =>
      /\ RowsAreFrom2000
      /\ WeeksBefore2000HaveNoRow
      /\ WeeksFrom2000HaveTheirRow

\* C10: requests are strictly sequential: every page request directly
\* follows a rate-limit check that returned, pages are requested in the
\* order 1, 2, ..., a check after the first is made only after a page that
\* succeeded, held a record and had a next link, and after any other page
\* response nothing more is requested and fetch_issues returns.
C10_PaginationIsSequential ==
    /\ \A i \in 1..Len(trace) :
          IF IsPageEvent(trace[i])
            THEN /\ i > 1
                 /\ trace[i - 1].op = "check"
                 /\ trace[i - 1].raised = "none"
                 /\ ~Continues(trace[i]) => (i = Len(trace) /\ FetchReturned)
            ELSE i > 1 => (IsPageEvent(trace[i - 1]) /\ Continues(trace[i - 1]))
    /\ \A k \in 1..Len(PageEvents) : PageEvents[k].page = k
    /\ (trace # <<>> /\ IsPageEvent(trace[Len(trace)]) /\ Continues(trace[Len(trace)]))
          => pc = "fi_check"
    /\ pc = "fi_request" =>
          (trace # <<>> /\ trace[Len(trace)].op = "check"
             /\ trace[Len(trace)].raised = "none")

C10_Witness ==
    /\ FetchReturned
    /\ Len(trace) = 4
    /\ Continues(trace[2])
    /\ trace[4].ok /\ Len(trace[4].data) > 0 /\ ~trace[4].next

====
